---- MODULE Spec2Model ----
(***************************************************************************)
(* The todo REST backend (backend/server.js and its older variant) and the *)
(* React client (frontend/src/App.jsx) as a state machine.  Requests are   *)
(* handled one at a time: a route handler runs as one step (each handler   *)
(* awaits a single atomic collection operation), then the client receives  *)
(* the response.                                                           *)
(***************************************************************************)
EXTENDS Integers, Sequences, FiniteSets, TLC

\* Number of documents the collection ever receives (caps the id generator).
MaxTodos == 2

(***************************************************************************)
(* JavaScript values.  A task is a tagged value: a string is a sequence of *)
(* characters, so that String.prototype.trim is computed; undefined and    *)
(* null are values of their own.  A status is a string; the two tokens     *)
(* below stand for the non-string values undefined and null.               *)
(***************************************************************************)
Str(s) == [type |-> "string", chars |-> s]
Undefined == [type |-> "undefined", chars |-> <<>>]
Null == [type |-> "null", chars |-> <<>>]
UNDEFINED == "#undefined"
NULL == "#null"

WhiteSpace == {" "}

RECURSIVE TrimStart(_)
TrimStart(s) ==
  IF s # <<>> /\ Head(s) \in WhiteSpace THEN TrimStart(Tail(s)) ELSE s

RECURSIVE TrimEnd(_)
TrimEnd(s) ==
  IF s # <<>> /\ s[Len(s)] \in WhiteSpace
    THEN TrimEnd(SubSeq(s, 1, Len(s) - 1))
    ELSE s

\* String.prototype.trim on the characters of a string.
Trim(s) == TrimEnd(TrimStart(s))

\* task.trim(), for a task that is a string.
TrimTask(task) == Str(Trim(task.chars))

\* JavaScript truthiness of a task value: undefined, null and "" are falsy.
Truthy(task) == task.type = "string" /\ task.chars # <<>>

\* The driver's BSON serializer writes an undefined field as null
\* (ignoreUndefined is off: new MongoClient(uri) passes no options).
BsonTask(task) == IF task = Undefined THEN Null ELSE task
BsonStatus(status) == IF status = UNDEFINED THEN NULL ELSE status

(***************************************************************************)
(* Requests a client can send.                                             *)
(***************************************************************************)
\* Task values of POST bodies: absent, "", " ", " a "; of PUT bodies: absent,
\* "", " a ".
TaskInputs == {Undefined, Str(<<>>), Str(<<" ">>), Str(<<" ", "a", " ">>)}
PutTaskInputs == {Undefined, Str(<<>>), Str(<<" ", "a", " ">>)}
\* Status values of request bodies: absent, the two literals, any other.
StatusInputs == {UNDEFINED, "pending", "done", "archived"}

\* The :id of a request.  0 is a string that is no ObjectId; MaxTodos + 1 is
\* a well-formed ObjectId that no insert ever produces.
BadId == 0
RequestIds == 0 .. (MaxTodos + 1)
\* new ObjectId(id) throws on a malformed id.
ObjectIdThrows(id) == id = BadId

NoTodo == [_id |-> 0, task |-> Undefined, status |-> UNDEFINED]
NoRequest == [method |-> "NONE", id |-> 0, task |-> Undefined, status |-> UNDEFINED]
NoResponse == [code |-> 0, kind |-> "none", todo |-> NoTodo, list |-> <<>>, error |-> ""]

Json(code, todo) == [NoResponse EXCEPT !.code = code, !.kind = "todo", !.todo = todo]
JsonList(list) == [NoResponse EXCEPT !.code = 200, !.kind = "list", !.list = list]
JsonError(code, msg) == [NoResponse EXCEPT !.code = code, !.kind = "error", !.error = msg]
\* res.json(undefined): a 200 response with no todo in it.
JsonUndefined == [NoResponse EXCEPT !.code = 200, !.kind = "undefined"]
\* The handler's promise rejected and nothing answered the request.
Unanswered == [NoResponse EXCEPT !.kind = "unanswered"]

VARIABLES
  variant,          \* which server file runs: "server.js" or "part_004"
  reliable,         \* the environment of this run: TRUE when neither the
                    \* database nor the network fails once the server listens
  proc,             \* the server process: connecting, listening or exited
  todosCollection,  \* the documents of todoDB.todos, in natural order
  nextId,           \* the next _id insertOne generates
  ledger,           \* history: the todos the server's answers reported as
                    \* created or updated and not as deleted
  request,          \* the request in flight or just answered (NoRequest: none)
  response,         \* the response to it (NoResponse: not answered yet)
  before,           \* the collection as it was when the handler started
  fault,            \* whether the handler's collection operation threw
  call,             \* the App function awaiting the response ("none": no App call)
  todos,            \* the App component's todos state
  newTask,          \* its new-task input
  error,            \* its error state: NULL or a message
  editingId,        \* the id of the todo under edit, or NoEditing
  editingText,      \* the text of the edit input
  synced,           \* history: the fetch of this page load succeeded
  parked,           \* the calls whose fetch settled while the user went on:
                    \* each with the state its closure captured
  parks,            \* how many calls were set aside so far
  isDemoMode,       \* the demo client's isDemoMode state
  baseUrl,          \* import.meta.env.VITE_API_URL of the demo client
  now,              \* Date.now() of the demo client, in local mutations
  input,            \* the arguments of a pure function under check
  output,           \* its results
  api,              \* a TodoApiClient: its options, cache and running calls
  service           \* a TodoService: its createTodo call and emitted events

serverVars == <<variant, reliable, proc, todosCollection, nextId, ledger>>
wireVars == <<request, response, before, fault>>
appVars == <<call, todos, newTask, error, editingId, editingText, synced, parked, parks>>
demoVars == <<isDemoMode, baseUrl, now>>
pureVars == <<input, output, api, service>>
vars == <<serverVars, wireVars, appVars, demoVars, pureVars>>

Ids(list) == {list[i]._id : i \in 1 .. Len(list)}
Find(list, id) == CHOOSE i \in 1 .. Len(list) : list[i]._id = id
Doc(list, id) == list[Find(list, id)]
Without(list, id) == SelectSeq(list, LAMBDA t : t._id # id)

Idle == request = NoRequest
\* fetch rejected: the request did not reach the server (TypeError).
NetworkError == [NoResponse EXCEPT !.kind = "rejected", !.error = "Failed to fetch"]
Settled == request # NoRequest /\ response # NoResponse
Answered == Settled /\ response # NetworkError

(***************************************************************************)
(* The route handlers of backend/server.js.  Each is a function of the     *)
(* request, the collection, the id the driver would generate and whether   *)
(* the collection operation throws; it yields the collection afterwards    *)
(* and the response.                                                       *)
(***************************************************************************)
Outcome(coll, res) == [coll |-> coll, res |-> res]

\* Mutant of PostStatus: the destructuring without its default.
PostStatusNoDefault(status) == status

\* const { task, status = "pending" } = req.body: the default applies to
\* an absent (undefined) status only.
PostStatus(status) == IF status = UNDEFINED THEN "pending" ELSE status

\* !task || task.trim() === ""
TaskMissing(task) == ~Truthy(task) \/ Trim(task.chars) = <<>>

\* The document insertOne stores and the handler answers with.
PostDoc(id, task, status) == [_id |-> id, task |-> TrimTask(task), status |-> status]

\* Mutant of GetTodos: find({ status: "pending" }) in place of find().
GetTodosPending(coll, dbThrows) ==
  IF dbThrows
    THEN Outcome(coll, JsonError(500, "Failed to fetch todos"))
    ELSE Outcome(coll, JsonList(SelectSeq(coll, LAMBDA t : t.status = "pending")))

GetTodos(coll, dbThrows) ==
  IF dbThrows
    THEN Outcome(coll, JsonError(500, "Failed to fetch todos"))
    ELSE Outcome(coll, JsonList(coll))

PostTodo(req, coll, id, dbThrows) ==
  LET status == PostStatus(req.status) IN
  IF TaskMissing(req.task)
    THEN Outcome(coll, JsonError(400, "Task is required"))
    ELSE IF dbThrows
      THEN Outcome(coll, JsonError(500, "Failed to add todo"))
      ELSE Outcome(Append(coll, PostDoc(id, req.task, status)),
                   Json(201, PostDoc(id, req.task, status)))

\* { $set: { task, status } } applied to a document.
SetFields(doc, task, status) ==
  [doc EXCEPT !.task = BsonTask(task), !.status = BsonStatus(status)]

\* findOneAndUpdate(..., { returnDocument: "after" }) on a collection that
\* holds the id.  The driver returns the document itself, or null when no
\* document has the id (the result the handlers test with !result).
UpdateOne(coll, id, task, status) ==
  [coll EXCEPT ![Find(coll, id)] = SetFields(coll[Find(coll, id)], task, status)]

\* Mutant of DeleteOne: the filter ignores the id and the first document goes.
DeleteFirst(coll, id) == Tail(coll)

\* findOneAndDelete on a collection that holds the id.
DeleteOne(coll, id) == Without(coll, id)

\* Mutant of PutTodo: the update runs with { upsert: true }.
PutTodoUpsert(req, coll, dbThrows) ==
  IF ObjectIdThrows(req.id) \/ dbThrows
    THEN Outcome(coll, JsonError(400, "Invalid ID format or update failed"))
    ELSE IF req.id \notin Ids(coll)
      THEN Outcome(Append(coll, SetFields([NoTodo EXCEPT !._id = req.id], req.task, req.status)),
                   Json(200, SetFields([NoTodo EXCEPT !._id = req.id], req.task, req.status)))
      ELSE Outcome(UpdateOne(coll, req.id, req.task, req.status),
                   Json(200, Doc(UpdateOne(coll, req.id, req.task, req.status), req.id)))

\* Mutant of PutTodo: the catch block answers 500, as those of GET and POST do.
PutTodoCatch500(req, coll, dbThrows) ==
  IF ObjectIdThrows(req.id) \/ dbThrows
    THEN Outcome(coll, JsonError(500, "Invalid ID format or update failed"))
    ELSE IF req.id \notin Ids(coll)
      THEN Outcome(coll, JsonError(404, "Todo not found"))
      ELSE Outcome(UpdateOne(coll, req.id, req.task, req.status),
                   Json(200, Doc(UpdateOne(coll, req.id, req.task, req.status), req.id)))

PutTodo(req, coll, dbThrows) ==
  IF ObjectIdThrows(req.id) \/ dbThrows
    THEN Outcome(coll, JsonError(400, "Invalid ID format or update failed"))
    ELSE IF req.id \notin Ids(coll)
      THEN Outcome(coll, JsonError(404, "Todo not found"))
      ELSE Outcome(UpdateOne(coll, req.id, req.task, req.status),
                   Json(200, Doc(UpdateOne(coll, req.id, req.task, req.status), req.id)))

\* Mutant of DeleteTodo: the result is answered without the null check.
DeleteTodoNoCheck(req, coll, dbThrows) ==
  IF ObjectIdThrows(req.id) \/ dbThrows
    THEN Outcome(coll, JsonError(400, "Invalid ID format or delete failed"))
    ELSE IF req.id \notin Ids(coll)
      THEN Outcome(coll, Json(200, NoTodo))
      ELSE Outcome(DeleteOne(coll, req.id), Json(200, Doc(coll, req.id)))

DeleteTodo(req, coll, dbThrows) ==
  IF ObjectIdThrows(req.id) \/ dbThrows
    THEN Outcome(coll, JsonError(400, "Invalid ID format or delete failed"))
    ELSE IF req.id \notin Ids(coll)
      THEN Outcome(coll, JsonError(404, "Todo not found"))
      ELSE Outcome(DeleteOne(coll, req.id), Json(200, Doc(coll, req.id)))

(***************************************************************************)
(* The route handlers of the older server file (unnamed/part_004), each    *)
(* yielding the set of its possible outcomes.  GET and POST have no        *)
(* try/catch: a rejected handler promise is answered 500 by Express 5 and  *)
(* left unanswered by Express 4.  PUT and DELETE answer   *)
(* with result.value, which is undefined on the document the driver        *)
(* returns.                                                                *)
(***************************************************************************)
Rejected == {JsonError(500, "Internal Server Error"), Unanswered}

GetTodosVariant(coll, dbThrows) ==
  IF dbThrows
    THEN {Outcome(coll, res) : res \in Rejected}
    ELSE {Outcome(coll, JsonList(coll))}

PostTodoVariant(req, coll, id, dbThrows) ==
  LET status == PostStatus(req.status) IN
  IF dbThrows
    THEN {Outcome(coll, res) : res \in Rejected}
    ELSE {Outcome(Append(coll, [_id |-> id, task |-> BsonTask(req.task),
                                status |-> BsonStatus(status)]),
                  Json(201, [_id |-> id, task |-> req.task, status |-> status]))}

PutTodoVariant(req, coll, dbThrows) ==
  IF ObjectIdThrows(req.id) \/ dbThrows
    THEN Outcome(coll, JsonError(400, "Invalid ID format"))
    ELSE IF req.id \notin Ids(coll)
      THEN Outcome(coll, JsonError(404, "Todo not found"))
      ELSE Outcome(UpdateOne(coll, req.id, req.task, req.status), JsonUndefined)

DeleteTodoVariant(req, coll, dbThrows) ==
  IF ObjectIdThrows(req.id) \/ dbThrows
    THEN Outcome(coll, JsonError(400, "Invalid ID format"))
    ELSE IF req.id \notin Ids(coll)
      THEN Outcome(coll, JsonError(404, "Todo not found"))
      ELSE Outcome(DeleteOne(coll, req.id), JsonUndefined)

\* The outcomes of the handler the running server file registers for the
\* request's route.
Route(req, coll, id, dbThrows) ==
  IF variant = "server.js"
    THEN CASE req.method = "GET" -> {GetTodos(coll, dbThrows)}
           [] req.method = "POST" -> {PostTodo(req, coll, id, dbThrows)}
           [] req.method = "PUT" -> {PutTodo(req, coll, dbThrows)}
           [] req.method = "DELETE" -> {DeleteTodo(req, coll, dbThrows)}
    ELSE CASE req.method = "GET" -> GetTodosVariant(coll, dbThrows)
           [] req.method = "POST" -> PostTodoVariant(req, coll, id, dbThrows)
           [] req.method = "PUT" -> {PutTodoVariant(req, coll, dbThrows)}
           [] req.method = "DELETE" -> {DeleteTodoVariant(req, coll, dbThrows)}

\* Whether the handler gets as far as its collection operation: POST of
\* server.js returns before it when the task is missing, PUT and DELETE
\* throw before it when new ObjectId(id) throws.
Reaches(req) ==
  CASE req.method = "GET" -> TRUE
    [] req.method = "POST" -> variant # "server.js" \/ ~TaskMissing(req.task)
    [] req.method = "PUT" -> ~ObjectIdThrows(req.id)
    [] req.method = "DELETE" -> ~ObjectIdThrows(req.id)

\* The history of the answers: a 201 to a POST adds the created todo, a 200
\* to a PUT puts the updated todo in the place of the one with the id, a 200
\* to a DELETE takes the one with the id out.  It reads no collection.
Ledger(led, req, res) ==
  CASE req.method = "POST" /\ res.code = 201 -> Append(led, res.todo)
    [] req.method = "PUT" /\ res.code = 200 ->
         [i \in 1 .. Len(led) |-> IF led[i]._id = req.id THEN res.todo ELSE led[i]]
    [] req.method = "DELETE" /\ res.code = 200 ->
         SelectSeq(led, LAMBDA t : t._id # req.id)
    [] OTHER -> led

\* The server receives request req and its handler runs to the response; the
\* collection operation it reaches may throw (connection lost, server error).
Handle(req) ==
  /\ Idle
  /\ proc.pc = "listening"
  /\ request' = req
  /\ \E dbThrows \in (IF Reaches(req) /\ ~reliable THEN BOOLEAN ELSE {FALSE}) :
       \E out \in Route(req, todosCollection, nextId, dbThrows) :
         /\ todosCollection' = out.coll
         /\ response' = out.res
         /\ nextId' = IF Len(out.coll) > Len(todosCollection) THEN nextId + 1 ELSE nextId
         /\ fault' = dbThrows
         /\ ledger' = Ledger(ledger, req, out.res)
  /\ before' = todosCollection
  /\ UNCHANGED <<variant, reliable, proc>>

(***************************************************************************)
(* Any HTTP client: it sends a request with a body of its choice and       *)
(* receives the response.                                                  *)
(***************************************************************************)
Get ==
  /\ call = "none"
  /\ Handle([NoRequest EXCEPT !.method = "GET"])
  /\ UNCHANGED <<appVars, demoVars, pureVars>>

Post ==
  /\ call = "none"
  /\ nextId <= MaxTodos
  /\ \E task \in TaskInputs, status \in StatusInputs :
       Handle([NoRequest EXCEPT !.method = "POST", !.task = task, !.status = status])
  /\ UNCHANGED <<appVars, demoVars, pureVars>>

Put ==
  /\ call = "none"
  /\ \E id \in RequestIds, task \in PutTaskInputs, status \in StatusInputs :
       Handle([method |-> "PUT", id |-> id, task |-> task, status |-> status])
  /\ UNCHANGED <<appVars, demoVars, pureVars>>

Delete ==
  /\ call = "none"
  /\ \E id \in RequestIds : Handle([NoRequest EXCEPT !.method = "DELETE", !.id = id])
  /\ UNCHANGED <<appVars, demoVars, pureVars>>

Receive ==
  /\ Answered
  /\ call = "none"
  /\ request' = NoRequest
  /\ response' = NoResponse
  /\ before' = <<>>
  /\ fault' = FALSE
  /\ UNCHANGED <<serverVars, appVars, demoVars, pureVars>>

(***************************************************************************)
(* Start-up: connectDB awaits client.connect(); when it resolves, the      *)
(* collection is assigned and app.listen is called in the same turn; when  *)
(* it rejects, the catch calls process.exit(1).                            *)
(***************************************************************************)
Connecting == [pc |-> "connecting", exitCode |-> 0, assigned |-> FALSE]

\* Mutant of connectDB: app.listen is called after the try/catch, whatever
\* the outcome of the connection, and the catch only logs.
connectDBListenAlways(connected) ==
  [pc |-> "listening", exitCode |-> 0, assigned |-> connected]

connectDB(connected) ==
  IF connected
    THEN [pc |-> "listening", exitCode |-> 0, assigned |-> TRUE]
    ELSE [pc |-> "exited", exitCode |-> 1, assigned |-> FALSE]

Connect ==
  /\ proc.pc = "connecting"
  /\ \E connected \in BOOLEAN : proc' = connectDB(connected)
  /\ UNCHANGED <<variant, reliable, todosCollection, nextId, ledger, wireVars, appVars, demoVars, pureVars>>

InitBackend ==
  /\ reliable = FALSE
  /\ proc = Connecting
  /\ ledger = <<>>
  /\ todosCollection = <<>>
  /\ nextId = 1
  /\ request = NoRequest
  /\ response = NoResponse
  /\ before = <<>>
  /\ fault = FALSE

\* useState(null) of editingId.
NoEditing == 0

\* The initial values of App's useState calls.
InitState ==
  /\ todos = <<>>
  /\ newTask = Str(<<>>)
  /\ error = NULL
  /\ editingId = NoEditing
  /\ editingText = Str(<<>>)
  /\ synced = FALSE
  /\ parked = {}
  /\ parks = 0

\* The first value Date.now() returns: any value past the ids of demoTodos.
FirstNow == 5

\* A client whose VITE_API_URL names the server, not in demo mode.
InitNoDemo ==
  /\ isDemoMode = FALSE
  /\ baseUrl = Str(<<"https://", "todo-api", ".example.com">>)
  /\ now = FirstNow

InitClient ==
  /\ call = "none"
  /\ InitState
  /\ InitNoDemo

\* No TodoApiClient and no TodoService is constructed.
InitLib ==
  /\ api = <<>>
  /\ service = <<>>

InitPure ==
  /\ input = <<>>
  /\ output = <<>>
  /\ InitLib

InitServer == InitBackend /\ InitClient /\ InitPure

Init == variant = "server.js" /\ InitServer

Next ==
  \/ Connect
  \/ Get
  \/ Post
  \/ Put
  \/ Delete
  \/ Receive

Spec == Init /\ [][Next]_vars

\* The same clients against the older server file.
InitVariant == variant = "part_004" /\ InitServer

SpecVariant == InitVariant /\ [][Next]_vars

(***************************************************************************)
(* The App component (frontend/src/App.jsx) as the only client, one user   *)
(* action at a time: each action sends its request, and its continuation   *)
(* after the await updates the todos state from the response.              *)
(***************************************************************************)
\* Texts the user types into the new-task and the edit input: "", " ", " a ".
TextInputs == {Str(<<>>), Str(<<" ">>), Str(<<" ", "a", " ">>)}

\* Texts the user leaves in the edit input: "" and " a ".
EditInputs == {Str(<<>>), Str(<<" ", "a", " ">>)}

\* res.ok
Ok(res) == res.code \in 200 .. 299

\* Mutant of StatusButton: the button always asks for "done".
StatusButtonDone(todo) == "done"

\* The status the status button of a rendered todo asks for.
StatusButton(todo) == IF todo.status # "done" THEN "done" ELSE "pending"

\* todos.map((t) => (t._id === id ? updated : t))
Replace(list, id, updated) ==
  [i \in 1 .. Len(list) |-> IF list[i]._id = id THEN updated ELSE list[i]]

InFlight == call \notin {"none", "unmounted"}
Mutations == {"addTodo", "deleteTodo", "saveEdit", "updateStatus"}

\* await fetch(...): the server handles the request, or the request does
\* not reach it and fetch rejects.
Rejects(req) ==
  /\ Idle
  /\ ~reliable \/ proc.pc # "listening"
  /\ request' = req
  /\ response' = NetworkError
  /\ before' = todosCollection
  /\ fault' = FALSE
  /\ UNCHANGED serverVars

Fetch(req) == Handle(req) \/ Rejects(req)

AppCall(name, req) ==
  /\ call = "none"
  /\ Fetch(req)
  /\ call' = name
  /\ UNCHANGED <<todos, error, synced, parked, parks, demoVars, pureVars>>

\* The page loads: the state has its initial values and the effect calls
\* fetchTodos, once.
fetchTodos ==
  /\ call \in {"unmounted", "none"}
  /\ Fetch([NoRequest EXCEPT !.method = "GET"])
  /\ call' = "fetchTodos"
  /\ todos' = <<>>
  /\ newTask' = Str(<<>>)
  /\ error' = NULL
  /\ editingId' = NoEditing
  /\ editingText' = Str(<<>>)
  /\ synced' = FALSE
  /\ parked' = {}
  /\ UNCHANGED <<parks, demoVars, pureVars>>

\* The user types a text into the new-task input and presses Add.
addTodo ==
  \E text \in TextInputs :
    /\ newTask' = text
    /\ UNCHANGED <<editingId, editingText>>
    /\ IF ~Truthy(TrimTask(text))
         THEN /\ call = "none"
              /\ UNCHANGED <<serverVars, wireVars, demoVars, pureVars>>
              /\ UNCHANGED <<call, todos, error, synced, parked, parks>>
         ELSE /\ nextId <= MaxTodos
              /\ AppCall("addTodo",
                         [NoRequest EXCEPT !.method = "POST", !.task = text,
                                           !.status = "pending"])

deleteTodo ==
  \E id \in Ids(todos) :
    /\ AppCall("deleteTodo", [NoRequest EXCEPT !.method = "DELETE", !.id = id])
    /\ UNCHANGED <<newTask, editingId, editingText>>

\* The user presses Edit on a todo (startEditing), types a text and presses
\* Save.
saveEdit ==
  \E id \in Ids(todos), text \in EditInputs :
    /\ editingId' = id
    /\ editingText' = text
    /\ AppCall("saveEdit", [NoRequest EXCEPT !.method = "PUT", !.id = id, !.task = text])
    /\ UNCHANGED newTask

updateStatus ==
  \E id \in Ids(todos) :
    /\ AppCall("updateStatus",
               [NoRequest EXCEPT !.method = "PUT", !.id = id,
                                 !.status = StatusButton(Doc(todos, id))])
    /\ UNCHANGED <<newTask, editingId, editingText>>

\* Mutant of AfterAwait: addTodo appends the todo as typed, with the id of
\* the answer, in place of the record the server answered with.
AfterAwaitAsTyped(name, list, req, res) ==
  IF ~Ok(res) THEN list
  ELSE CASE name = "fetchTodos" -> res.list
         [] name = "addTodo" ->
              Append(list, [_id |-> res.todo._id, task |-> req.task, status |-> "pending"])
         [] name = "deleteTodo" -> Without(list, req.id)
         [] name = "saveEdit" -> Replace(list, req.id, res.todo)
         [] name = "updateStatus" -> Replace(list, req.id, res.todo)

\* The list an App function sets after its await, given the response.
AfterAwait(name, list, req, res) ==
  IF ~Ok(res) THEN list
  ELSE CASE name = "fetchTodos" -> res.list
         [] name = "addTodo" -> Append(list, res.todo)
         [] name = "deleteTodo" -> Without(list, req.id)
         [] name = "saveEdit" -> Replace(list, req.id, res.todo)
         [] name = "updateStatus" -> Replace(list, req.id, res.todo)

\* The Error each function throws on a response that is not ok.
Thrown(name, res) ==
  CASE name = "fetchTodos" -> "HTTP error! status: " \o ToString(res.code)
    [] name = "addTodo" -> "Failed to add task"
    [] name = "deleteTodo" -> "Failed to delete task"
    [] name = "saveEdit" -> "Failed to update task"
    [] name = "updateStatus" -> "Failed to update status"

\* err.message in the catch block: of the TypeError of a rejected fetch, or
\* of the Error thrown on a response that is not ok.
ErrMessage(name, res) == IF res = NetworkError THEN res.error ELSE Thrown(name, res)

\* Mutant of ErrorAfter: the catch blocks only log.
ErrorAfterLogOnly(name, err, res) ==
  IF Ok(res) /\ name = "fetchTodos" THEN NULL ELSE err

\* The error state after the function ends.
ErrorAfter(name, err, res) ==
  IF Ok(res)
    THEN IF name = "fetchTodos" THEN NULL ELSE err
    ELSE IF name = "fetchTodos"
           THEN "Cannot connect to backend API: " \o ErrMessage(name, res)
           ELSE ErrMessage(name, res)

\* The response of the awaited fetch arrives and the function runs to its
\* end.
Finish ==
  /\ Settled
  /\ call \notin {"none", "unmounted"}
  /\ todos' = AfterAwait(call, todos, request, response)
  /\ error' = ErrorAfter(call, error, response)
  /\ newTask' = IF Ok(response) /\ call = "addTodo" THEN Str(<<>>) ELSE newTask
  /\ editingId' = IF Ok(response) /\ call = "saveEdit" THEN NoEditing ELSE editingId
  /\ editingText' = IF Ok(response) /\ call = "saveEdit" THEN Str(<<>>) ELSE editingText
  /\ synced' = (synced \/ (Ok(response) /\ call = "fetchTodos"))
  /\ call' = "none"
  /\ request' = NoRequest
  /\ response' = NoResponse
  /\ before' = <<>>
  /\ fault' = FALSE
  /\ UNCHANGED <<serverVars, parked, parks, pureVars>>

\* Mutant of AppReceive: after a response that is not ok the function sends
\* its request again.
AppReceiveRetry ==
  IF Settled /\ ~Ok(response) /\ proc.pc = "listening"
    THEN /\ call \notin {"none", "unmounted"}
         /\ \E out \in Route(request, todosCollection, nextId, FALSE) :
              /\ todosCollection' = out.coll
              /\ response' = out.res
              /\ nextId' = IF Len(out.coll) > Len(todosCollection) THEN nextId + 1 ELSE nextId
              /\ ledger' = Ledger(ledger, request, out.res)
         /\ UNCHANGED <<variant, reliable, proc, request, before, fault, appVars, demoVars, pureVars>>
    ELSE Finish /\ UNCHANGED demoVars

AppReceive == Finish /\ UNCHANGED demoVars

NextApp ==
  \/ Connect
  \/ fetchTodos
  \/ addTodo
  \/ deleteTodo
  \/ saveEdit
  \/ updateStatus
  \/ AppReceive

InitApp ==
  /\ variant = "server.js"
  /\ InitBackend
  /\ call = "unmounted"
  /\ InitState
  /\ InitNoDemo
  /\ InitPure

SpecApp == InitApp /\ [][NextApp]_vars

(***************************************************************************)
(* Overlapping actions.  An App function is a closure over the todos of    *)
(* the render in which the user pressed its button: what it passes to      *)
(* setTodos after its await is computed from that list.  The user may go on *)
(* while a mutation is awaiting its fetch: the call is set aside with the   *)
(* list it captured, and its continuation runs later, in any order with    *)
(* the others.  MaxParked caps the number of calls set aside in a run.      *)
(***************************************************************************)
MaxParked == 1

\* The user goes on while the mutation on the wire awaits its response.
Park ==
  /\ Settled
  /\ call \in Mutations
  /\ parks < MaxParked
  /\ parks' = parks + 1
  /\ parked' = parked \cup {[call |-> call, request |-> request,
                              response |-> response, todos |-> todos]}
  /\ call' = "none"
  /\ request' = NoRequest
  /\ response' = NoResponse
  /\ before' = <<>>
  /\ fault' = FALSE
  /\ UNCHANGED <<serverVars, demoVars, pureVars>>
  /\ UNCHANGED <<todos, newTask, error, editingId, editingText, synced>>

\* The continuation of a call set aside runs: as Finish, on the list its
\* closure captured.
Resume ==
  /\ call = "none"
  /\ \E c \in parked :
       /\ parked' = parked \ {c}
       /\ todos' = IF Ok(c.response)
                     THEN AfterAwait(c.call, c.todos, c.request, c.response)
                     ELSE todos
       /\ error' = ErrorAfter(c.call, error, c.response)
       /\ newTask' = IF Ok(c.response) /\ c.call = "addTodo" THEN Str(<<>>) ELSE newTask
       /\ editingId' = IF Ok(c.response) /\ c.call = "saveEdit" THEN NoEditing ELSE editingId
       /\ editingText' = IF Ok(c.response) /\ c.call = "saveEdit" THEN Str(<<>>) ELSE editingText
  /\ UNCHANGED <<serverVars, wireVars, call, synced, parks, demoVars, pureVars>>

NextOverlap ==
  \/ NextApp
  \/ Park
  \/ Resume

\* The server starts on an empty collection, in a run where nothing fails
\* once it listens, and the page is not loaded yet.
InitOverlap ==
  /\ variant = "server.js"
  /\ reliable = TRUE
  /\ proc = Connecting
  /\ ledger = <<>>
  /\ todosCollection = <<>>
  /\ nextId = 1
  /\ request = NoRequest
  /\ response = NoResponse
  /\ before = <<>>
  /\ fault = FALSE
  /\ call = "unmounted"
  /\ InitState
  /\ InitNoDemo
  /\ InitPure

SpecOverlap == InitOverlap /\ [][NextOverlap]_vars

(***************************************************************************)
(* The demo variant of the client (unnamed/part_000): App with an          *)
(* isDemoMode state.  fetchTodos enters demo mode, with the demo dataset,  *)
(* when no backend is configured or the fetch fails; in demo mode the four *)
(* mutations act on the local list and send nothing.  A run is one page     *)
(* load.  The id `demo-${n}` is the integer -n; text that is not typed by  *)
(* the user is one token.  The clock advances with every local mutation;   *)
(* MaxLocal caps it.                                                       *)
(***************************************************************************)
MaxLocal == 3

DemoId(n) == 0 - n

demoTodos ==
  << [_id |-> DemoId(1), task |-> Str(<<"Welcome to the Todo App!">>), status |-> "pending"],
     [_id |-> DemoId(2), task |-> Str(<<"This is demo mode (backend not connected)">>),
      status |-> "pending"],
     [_id |-> DemoId(3), task |-> Str(<<"Add, edit, and delete todos">>), status |-> "done"],
     [_id |-> DemoId(4), task |-> Str(<<"Filter between All/Pending/Done">>), status |-> "done"] >>

\* Values of VITE_API_URL: unset, empty, a localhost URL, a remote URL.
BaseUrls ==
  {Undefined, Str(<<>>), Str(<<"http://", "localhost", ":5000">>),
   Str(<<"https://", "todo-api", ".example.com">>)}

\* url.includes(word), on a URL cut into its parts.
Includes(url, word) == \E i \in 1 .. Len(url.chars) : url.chars[i] = word

\* !BASE_URL || BASE_URL.includes('localhost')
NoBackend(url) == ~Truthy(url) \/ Includes(url, "localhost")

\* [...todos, { _id: `demo-${Date.now()}`, task: newTask, status: "pending" }]
LocalAdd(list, text, t) ==
  Append(list, [_id |-> DemoId(t), task |-> text, status |-> "pending"])

\* Mutant of LocalEdit: the edited todo is rebuilt as a pending one.
LocalEditAsNew(list, id, text) ==
  [i \in 1 .. Len(list) |->
     IF list[i]._id = id
       THEN [_id |-> id, task |-> text, status |-> "pending"]
       ELSE list[i]]

\* todos.map((t) => (t._id === id ? { ...t, task: editingText } : t))
LocalEdit(list, id, text) ==
  [i \in 1 .. Len(list) |->
     IF list[i]._id = id THEN [list[i] EXCEPT !.task = text] ELSE list[i]]

\* todos.map((t) => (t._id === id ? { ...t, status } : t))
LocalStatus(list, id, status) ==
  [i \in 1 .. Len(list) |->
     IF list[i]._id = id THEN [list[i] EXCEPT !.status = status] ELSE list[i]]

\* A mutation in demo mode: it sets the list and sends nothing.
Local(list) ==
  /\ call = "none"
  /\ now < FirstNow + MaxLocal
  /\ now' = now + 1
  /\ todos' = list
  /\ UNCHANGED <<serverVars, wireVars, call, error, synced, parked, parks>>
  /\ UNCHANGED <<isDemoMode, baseUrl, pureVars>>

\* The page loads and the effect calls fetchTodos.
fetchTodosDemo ==
  /\ call = "unmounted"
  /\ IF NoBackend(baseUrl)
       THEN /\ isDemoMode' = TRUE
            /\ todos' = demoTodos
            /\ error' = "Demo Mode: Backend API not connected. Deploy backend to see full functionality."
            /\ call' = "none"
            /\ UNCHANGED <<serverVars, wireVars, baseUrl>>
       ELSE /\ Fetch([NoRequest EXCEPT !.method = "GET"])
            /\ call' = "fetchTodos"
            /\ UNCHANGED <<todos, error, demoVars>>
  /\ UNCHANGED <<newTask, editingId, editingText, synced, parked, parks, now, pureVars>>

addTodoDemo ==
  \E text \in TextInputs :
    /\ UNCHANGED <<editingId, editingText>>
    /\ IF ~Truthy(TrimTask(text))
         THEN /\ call = "none"
              /\ newTask' = text
              /\ UNCHANGED <<serverVars, wireVars, demoVars, pureVars>>
              /\ UNCHANGED <<call, todos, error, synced, parked, parks>>
         ELSE IF isDemoMode
                THEN /\ Local(LocalAdd(todos, text, now))
                     /\ newTask' = Str(<<>>)
                ELSE /\ nextId <= MaxTodos
                     /\ newTask' = text
                     /\ AppCall("addTodo",
                                [NoRequest EXCEPT !.method = "POST", !.task = text,
                                                  !.status = "pending"])

deleteTodoDemo ==
  \E id \in Ids(todos) :
    /\ UNCHANGED <<newTask, editingId, editingText>>
    /\ IF isDemoMode
         THEN Local(Without(todos, id))
         ELSE AppCall("deleteTodo", [NoRequest EXCEPT !.method = "DELETE", !.id = id])

saveEditDemo ==
  \E id \in Ids(todos), text \in EditInputs :
    /\ UNCHANGED newTask
    /\ IF isDemoMode
         THEN /\ Local(LocalEdit(todos, id, text))
              /\ editingId' = NoEditing
              /\ editingText' = Str(<<>>)
         ELSE /\ editingId' = id
              /\ editingText' = text
              /\ AppCall("saveEdit",
                         [NoRequest EXCEPT !.method = "PUT", !.id = id, !.task = text])

updateStatusDemo ==
  \E id \in Ids(todos) :
    /\ UNCHANGED <<newTask, editingId, editingText>>
    /\ IF isDemoMode
         THEN Local(LocalStatus(todos, id, StatusButton(Doc(todos, id))))
         ELSE AppCall("updateStatus",
                      [NoRequest EXCEPT !.method = "PUT", !.id = id,
                                        !.status = StatusButton(Doc(todos, id))])

\* Mutant of DemoAfter: every catch block switches to demo mode.
DemoAfterAnyFailure(name, demo, res) ==
  IF name = "fetchTodos" THEN ~Ok(res) ELSE demo \/ ~Ok(res)

\* isDemoMode after the function ends: fetchTodos sets it, to false on
\* success and to true in its catch; the mutations leave it.
DemoAfter(name, demo, res) ==
  IF name = "fetchTodos" THEN ~Ok(res) ELSE demo

\* The response of the awaited fetch arrives and the function runs to its
\* end: as in App, but for the catch of fetchTodos.
AppReceiveDemo ==
  /\ Settled
  /\ InFlight
  /\ todos' = IF call = "fetchTodos" /\ ~Ok(response)
                THEN demoTodos
                ELSE AfterAwait(call, todos, request, response)
  /\ error' = IF call = "fetchTodos" /\ ~Ok(response)
                THEN "Demo Mode: Cannot connect to backend API. " \o ErrMessage(call, response)
                ELSE ErrorAfter(call, error, response)
  /\ isDemoMode' = DemoAfter(call, isDemoMode, response)
  /\ newTask' = IF Ok(response) /\ call = "addTodo" THEN Str(<<>>) ELSE newTask
  /\ editingId' = IF Ok(response) /\ call = "saveEdit" THEN NoEditing ELSE editingId
  /\ editingText' = IF Ok(response) /\ call = "saveEdit" THEN Str(<<>>) ELSE editingText
  /\ synced' = (synced \/ (Ok(response) /\ call = "fetchTodos"))
  /\ call' = "none"
  /\ request' = NoRequest
  /\ response' = NoResponse
  /\ before' = <<>>
  /\ fault' = FALSE
  /\ UNCHANGED <<serverVars, parked, parks, baseUrl, now, pureVars>>

NextDemo ==
  \/ Connect
  \/ fetchTodosDemo
  \/ addTodoDemo
  \/ deleteTodoDemo
  \/ saveEditDemo
  \/ updateStatusDemo
  \/ AppReceiveDemo

InitDemo ==
  /\ variant = "server.js"
  /\ InitBackend
  /\ call = "unmounted"
  /\ InitState
  /\ isDemoMode = FALSE
  /\ baseUrl \in BaseUrls
  /\ now = FirstNow
  /\ InitPure

SpecDemo == InitDemo /\ [][NextDemo]_vars

(***************************************************************************)
(* Properties.                                                             *)
(***************************************************************************)
NonEmptyString(task) == task.type = "string" /\ task.chars # <<>>
Range(list) == {list[i] : i \in 1 .. Len(list)}
Handled(method) == Answered /\ request.method = method

\* C1: a POST /todos whose task is non-empty after trimming and whose body
\* has no status inserts exactly one new record, with status "pending" and
\* the trimmed task, and answers 201 with that record under a fresh _id
\* (the insert itself not failing).
C1_PostCreatesPending ==
  (/\ Handled("POST")
   /\ ~fault
   /\ request.status = UNDEFINED
   /\ request.task.type = "string"
   /\ Trim(request.task.chars) # <<>>)
  => /\ response.code = 201
     /\ response.kind = "todo"
     /\ response.todo.status = "pending"
     /\ response.todo.task.type = "string"
     /\ response.todo.task.chars = Trim(request.task.chars)
     /\ response.todo._id \notin Ids(before)
     /\ todosCollection = Append(before, response.todo)

\* C1 witness: " a " was posted without a status onto a collection that
\* already holds a record, and "a" was stored as pending.
C1_Witness ==
  /\ Handled("POST")
  /\ request.status = UNDEFINED
  /\ request.task = Str(<<" ", "a", " ">>)
  /\ before # <<>>
  /\ response.code = 201
  /\ response.todo.task = Str(<<"a">>)
  /\ Len(todosCollection) = Len(before) + 1

\* C2 (as claimed): every record of the collection has a status of "pending"
\* or "done" and a task that is a non-empty string.
C2_RecordsValid ==
  \A i \in 1 .. Len(todosCollection) :
    /\ todosCollection[i].status \in {"pending", "done"}
    /\ NonEmptyString(todosCollection[i].task)

\* C3 (as claimed): a PUT on an existing todo changes only the fields its
\* body carries and no other record.
C3_PutChangesOnlyGivenFields ==
  (Handled("PUT") /\ ~fault /\ request.id \in Ids(before))
  => /\ Len(todosCollection) = Len(before)
     /\ \A i \in 1 .. Len(before) :
          IF before[i]._id = request.id
            THEN /\ todosCollection[i]._id = request.id
                 /\ request.task = Undefined
                      => todosCollection[i].task = before[i].task
                 /\ request.status = UNDEFINED
                      => todosCollection[i].status = before[i].status
            ELSE todosCollection[i] = before[i]

StatusOf(list, id) == IF id \in Ids(list) THEN Doc(list, id).status ELSE "#absent"

\* A successful status-button press: the status is stored and answered as
\* requested, the request is the opposite of the status the client renders,
\* and a stored "pending" or "done" flips.  Every successful GET returns
\* the collection as stored.
C4_PressSetsOpposite ==
  /\ (Answered /\ call = "updateStatus" /\ Ok(response))
     => /\ request.status = StatusButton(Doc(todos, request.id))
        /\ StatusOf(todosCollection, request.id) = request.status
        /\ response.todo.status = request.status
        /\ StatusOf(before, request.id) = "pending" => request.status = "done"
        /\ StatusOf(before, request.id) = "done" => request.status = "pending"
  /\ (Handled("GET") /\ Ok(response)) => response.list = todosCollection

\* The stored status of a todo changes, and the todo leaves the collection,
\* only in the handling of a PUT or DELETE that targets its id.
C4_StatusKept ==
  \A id \in Ids(todosCollection) :
    StatusOf(todosCollection', id) # StatusOf(todosCollection, id)
    => request'.method \in {"PUT", "DELETE"} /\ request'.id = id

\* C4: a status set by a successful PUT is what every later GET returns
\* until another PUT or DELETE targets the id, and the client's status
\* button asks for the opposite of the current status, so presses alternate
\* the stored status between "pending" and "done".
C4_StatusToggles == [](C4_PressSetsOpposite) /\ [][C4_StatusKept]_vars

\* C4 witness: a press has turned a todo whose stored status was "done" (set
\* by an earlier press: todos are added as "pending") back to "pending".
C4_Witness ==
  /\ Answered
  /\ call = "updateStatus"
  /\ Ok(response)
  /\ StatusOf(before, request.id) = "done"
  /\ StatusOf(todosCollection, request.id) = "pending"
  /\ Len(todosCollection) > 1

UniqueIds(list) == \A i, j \in 1 .. Len(list) : list[i]._id = list[j]._id => i = j
ErrorResponse(res) == res.kind = "error" /\ res.error # ""

\* A DELETE of an id the collection holds answers with that document and
\* removes it and nothing else; no two documents share an id.
C5_DeleteRemovesOne ==
  /\ UniqueIds(todosCollection)
  /\ (Handled("DELETE") /\ ~fault /\ request.id \in Ids(before))
     => /\ response.code = 200
        /\ response.kind = "todo"
        /\ response.todo \in Range(before)
        /\ response.todo._id = request.id
        /\ request.id \notin Ids(todosCollection)
        /\ Len(todosCollection) = Len(before) - 1
        /\ \A t \in Range(before) : t._id # request.id => t \in Range(todosCollection)
  /\ (Handled("GET") /\ ~fault) => response.code = 200 /\ response.list = todosCollection

\* An id that was generated and is not in the collection never enters it.
C5_DeletedStaysAbsent ==
  \A id \in 1 .. (nextId - 1) :
    id \notin Ids(todosCollection) => id \notin Ids(todosCollection')

\* C5: a DELETE of an id in the collection answers with the deleted todo,
\* removes exactly that record, and the id is in no later GET response.
C5_Delete == [](C5_DeleteRemovesOne) /\ [][C5_DeletedStaysAbsent]_vars

\* C5 witness: the first of two documents was deleted and the second kept.
C5_Witness ==
  /\ Handled("DELETE")
  /\ Len(before) = 2
  /\ request.id = before[1]._id
  /\ response.code = 200
  /\ todosCollection = <<before[2]>>

\* C6: a DELETE of a well-formed id that is not in the collection answers
\* 404 with an error message and leaves the collection as it was.
C6_DeleteMissing404 ==
  (Handled("DELETE") /\ ~fault /\ ~ObjectIdThrows(request.id)
     /\ request.id \notin Ids(before))
  => /\ response.code = 404
     /\ ErrorResponse(response)
     /\ todosCollection = before

\* C6 witness: the second DELETE of an id that had been generated and
\* deleted, answered 404 while another document is in the collection.
C6_Witness ==
  /\ Handled("DELETE")
  /\ request.id \in 1 .. (nextId - 1)
  /\ request.id \notin Ids(before)
  /\ before # <<>>
  /\ response.code = 404

\* C7: a PUT of a well-formed id that is not in the collection answers 404
\* with an error message, creates no record and leaves the collection as
\* it was.
C7_PutMissing404 ==
  (Handled("PUT") /\ ~fault /\ ~ObjectIdThrows(request.id)
     /\ request.id \notin Ids(before))
  => /\ response.code = 404
     /\ ErrorResponse(response)
     /\ todosCollection = before

\* C7 witness: a PUT carrying a task and a status for an id that is not in
\* the non-empty collection was answered 404.
C7_Witness ==
  /\ Handled("PUT")
  /\ request.id # BadId
  /\ request.id \notin Ids(before)
  /\ request.task # Undefined
  /\ request.status # UNDEFINED
  /\ before # <<>>
  /\ response.code = 404

\* C8: a PUT or DELETE whose :id is no valid ObjectId answers with a 4xx
\* status and an error message and leaves the collection as it was.
C8_MalformedId4xx ==
  (Answered /\ request.method \in {"PUT", "DELETE"} /\ request.id = BadId)
  => /\ response.code \in 400 .. 499
     /\ ErrorResponse(response)
     /\ todosCollection = before

\* C8 witness: a PUT with the malformed id and a full body was answered 400
\* on a non-empty collection.
C8_Witness ==
  /\ Handled("PUT")
  /\ request.id = BadId
  /\ request.task # Undefined
  /\ request.status # UNDEFINED
  /\ before # <<>>
  /\ response.code = 400

\* The same for a DELETE with the malformed id.
C8_WitnessDelete ==
  /\ Handled("DELETE")
  /\ request.id = BadId
  /\ before # <<>>
  /\ response.code = 400

\* C9 (as claimed): on every endpoint, when the collection operation throws
\* (the id being well-formed), the response is a 500.
C9_DbFailure500 ==
  (Answered /\ fault) => response.code = 500

\* C10 (as claimed): a POST whose task is missing, empty or whitespace-only
\* answers 400 with an error message and inserts nothing.
C10_PostWithoutTask400 ==
  (Handled("POST") /\ ~fault
     /\ (request.task.type # "string" \/ Trim(request.task.chars) = <<>>))
  => /\ response.code = 400
     /\ ErrorResponse(response)
     /\ todosCollection = before

\* C11: GET /todos returns exactly the records that a successful POST
\* created and no successful DELETE removed since, each as its latest
\* successful PUT left it, and writes nothing.
C11_GetReturnsLiveTodos ==
  (Handled("GET") /\ ~fault)
  => /\ response.code = 200
     /\ response.kind = "list"
     /\ response.list = ledger
     /\ todosCollection = before

\* C11 witness: a GET answered with one todo, after two were created, one of
\* them was deleted and the other was set to "done" by a PUT.
C11_Witness ==
  /\ Handled("GET")
  /\ nextId = 3
  /\ Len(response.list) = 1
  /\ response.list[1].status = "done"
  /\ response.list[1].task = Str(<<" ", "a", " ">>)

\* The server listens only with the collection assigned, a handler has only
\* run on a listening server, and an exited process has exit code 1.
C17_ListensWithCollection ==
  /\ proc.pc = "listening" => proc.assigned
  /\ Answered => proc.pc = "listening" /\ proc.assigned
  /\ proc.pc = "exited" => proc.exitCode = 1 /\ ~proc.assigned /\ ~Answered
  /\ proc.pc = "connecting" => ~Answered /\ todosCollection = <<>>

\* A process that exited stays exited; it exits only from connecting.
C17_ExitIsFinal ==
  /\ proc.pc = "exited" => proc'.pc = "exited"
  /\ proc'.pc = "exited" => proc.pc \in {"connecting", "exited"}
  /\ proc'.pc = "listening" => proc.pc \in {"connecting", "listening"}

\* C17: the server listens only after the connection succeeded and
\* todosCollection was assigned, so no handler runs without the collection;
\* when the connection fails the process exits with code 1 and never listens.
C17_ListenAfterConnect == [](C17_ListensWithCollection) /\ [][C17_ExitIsFinal]_vars

\* C17 witness: a request was handled by the listening server.
C17_Witness ==
  /\ Answered
  /\ proc.pc = "listening"
  /\ proc.assigned
  /\ todosCollection # <<>>

\* The other outcome of start-up: the process exited with code 1.
C17_WitnessExit == proc.pc = "exited" /\ proc.exitCode = 1

(***************************************************************************)
(* The three status filters: App's filteredTodos, todoUtils' filterTodos   *)
(* and TodoApiClient's getTodosByStatus, applied to one list of todos.     *)
(* The todos are records as GET /todos returns them, with the three        *)
(* fields; task and status range over what the server stores, null         *)
(* included.                                                               *)
(***************************************************************************)
MaxList == 2

FilterValues == {"all", "pending", "done"}
FilterTasks == {Str(<<"a">>), Str(<<" ">>), Null}
FilterStatuses == {"pending", "done", NULL}

\* The lists of at most MaxList todos; the _id of a todo is its position.
FilterLists ==
  UNION {[1 .. n -> [task : FilterTasks, status : FilterStatuses]] : n \in 0 .. MaxList}
WithIds(list) ==
  [i \in 1 .. Len(list) |-> [_id |-> i, task |-> list[i].task, status |-> list[i].status]]

\* App.jsx: todos.filter(todo => filter === "all" ? true : todo.status === filter)
filteredTodos(list, filter) ==
  SelectSeq(list, LAMBDA todo : IF filter = "all" THEN TRUE ELSE todo.status = filter)

\* todoUtils.js validateTodoStructure, on a record that has the three fields.
validateTodoStructure(todo) ==
  /\ todo.status \in {"pending", "done"}
  /\ todo.task.type = "string"
  /\ Trim(todo.task.chars) # <<>>

\* todoUtils.js filterTodos, on an array.
filterTodos(list, filter) ==
  IF filter = "all"
    THEN list
    ELSE SelectSeq(list, LAMBDA todo :
           IF ~validateTodoStructure(todo) THEN FALSE ELSE todo.status = filter)

\* todoApiClient.js getTodosByStatus, allTodos being what getAllTodos returned.
getTodosByStatus(allTodos, status) ==
  IF status = "all"
    THEN allTodos
    ELSE SelectSeq(allTodos, LAMBDA todo : todo.status = status)

NoOutput == [app |-> <<>>, util |-> <<>>, api |-> <<>>, done |-> FALSE]

ApplyFilters ==
  /\ ~output.done
  /\ output' = [app |-> filteredTodos(input.todos, input.filter),
                util |-> filterTodos(input.todos, input.filter),
                api |-> getTodosByStatus(input.todos, input.filter),
                done |-> TRUE]
  /\ UNCHANGED <<serverVars, wireVars, appVars, demoVars, input, api, service>>

InitFilter ==
  /\ variant = "server.js"
  /\ InitBackend
  /\ InitClient
  /\ \E list \in FilterLists, filter \in FilterValues :
       input = [todos |-> WithIds(list), filter |-> filter]
  /\ output = NoOutput
  /\ InitLib

NextFilter == ApplyFilters

SpecFilter == InitFilter /\ [][NextFilter]_vars

\* The todos of the list whose status equals the filter, in the list's order.
WithStatus(list, filter) ==
  IF filter = "all" THEN list ELSE SelectSeq(list, LAMBDA todo : todo.status = filter)

\* C12: for the filter "pending" or "done" the filtered view holds exactly
\* the todos whose status equals the filter, in the original order, and for
\* "all" the whole list; filteredTodos, filterTodos and getTodosByStatus
\* alike.
C12_FiltersAlike ==
  output.done
  => /\ output.app = WithStatus(input.todos, input.filter)
     /\ output.util = WithStatus(input.todos, input.filter)
     /\ output.api = WithStatus(input.todos, input.filter)

\* What does hold: filteredTodos and getTodosByStatus are that view, and
\* filterTodos is that view without the todos validateTodoStructure rejects.
C12_FilterTodosDropsInvalid ==
  output.done
  => /\ output.app = WithStatus(input.todos, input.filter)
     /\ output.api = WithStatus(input.todos, input.filter)
     /\ output.util =
          IF input.filter = "all" THEN input.todos
          ELSE SelectSeq(WithStatus(input.todos, input.filter), validateTodoStructure)

\* The case of C12's divergence: a "done" todo whose task is null, as a
\* status-only PUT stores it, is in App's view and not in filterTodos'.
C12_Divergence ==
  /\ output.done
  /\ input.filter = "done"
  /\ \E i \in 1 .. Len(input.todos) :
       /\ input.todos[i].status = "done"
       /\ input.todos[i].task = Null
       /\ input.todos[i] \in Range(output.app)
       /\ input.todos[i] \notin Range(output.util)

\* The handling of a failed fetch: the error is a non-empty message, and
\* after a mutation the list, the new-task input and the editing state are
\* as they were.
C13_FailureHandled ==
  (InFlight /\ call' = "none" /\ ~Ok(response))
  => /\ error' \notin {NULL, ""}
     /\ call \in Mutations
        => /\ todos' = todos
           /\ newTask' = newTask
           /\ editingId' = editingId
           /\ editingText' = editingText

\* C13: whenever a fetch for list, add, delete, save-edit or status-update
\* fails (network error or response not ok), error becomes a non-empty
\* message and, for the four mutations, todos, newTask and the editing state
\* are left unchanged.
C13_FailureSetsErrorOnly == [][C13_FailureHandled]_vars

\* C13 witness: a save of an edit has failed: the error is its message and
\* the edit is still open on a todo of the list.
C13_Witness ==
  /\ call = "none"
  /\ error = "Failed to update task"
  /\ editingId \in Ids(todos)
  /\ editingText = Str(<<" ", "a", " ">>)
  /\ Len(todos) = 2

\* C15: for the one client whose fetch at page load succeeded and whose
\* actions are issued one at a time, after every handled response todos
\* holds exactly the records of the server collection (same ids, task and
\* status, in the same order).
C15_ClientEqualsServer ==
  (synced /\ call = "none") => todos = todosCollection

\* C15 witness: after a fetch that found a todo, an add, a delete and a
\* status change were handled, and a failed action in between left its
\* error.
C15_Witness ==
  /\ synced
  /\ call = "none"
  /\ nextId = 3
  /\ Len(todos) = 1
  /\ todos[1].status = "done"
  /\ error \in {"Failed to fetch", "Failed to delete task"}

\* No request is issued while a call is in flight: the settled request is
\* only handled; and a mutation request is issued only in the step of the
\* user action that names it.
C16_NoSecondRequest ==
  /\ InFlight
     => \/ request' = request /\ response' = response /\ call' = call
        \/ request' = NoRequest /\ call' = "none"
  /\ (request' # request /\ request'.method \in {"POST", "PUT", "DELETE"})
     => /\ call = "none"
        /\ request = NoRequest
        /\ call' \in Mutations

\* C16: each user action (add, delete, save edit, status change) issues at
\* most one HTTP mutation request; the client sends none again, and every
\* request it sends is sent in the step of the action and handled.
C16_OneRequestPerAction == [][C16_NoSecondRequest]_vars

\* C16 witness: a failed add has been handled and no request is in flight.
C16_Witness ==
  /\ call = "none"
  /\ request = NoRequest
  /\ error = "Failed to add task"
  /\ newTask = Str(<<" ", "a", " ">>)

\* A handled successful mutation leaves no error.
C20_SuccessLeavesNoError ==
  (call \in Mutations /\ call' = "none" /\ Ok(response)) => error' = NULL

\* C20: the error reflects the latest operation: a successful add, delete,
\* save-edit or status-update clears an earlier error, so a non-null error
\* means the latest completed operation failed.
C20_ErrorReflectsLatest == [][C20_SuccessLeavesNoError]_vars

\* The case of C20: a delete succeeded (the list is empty again) and the
\* error of an earlier failed add is still shown.
C20_StaleError ==
  /\ synced
  /\ call = "none"
  /\ nextId = 2
  /\ todos = <<>>
  /\ error = "Failed to add task"

Quiet == call = "none" /\ parked = {}

\* C18: when two mutations overlap (the second action is issued before the
\* response of the first was handled), after both responses were handled
\* todos reflects both and equals the server collection: no completed
\* mutation is lost from the list.
C18_OverlapKeepsBoth == (synced /\ Quiet) => todos = todosCollection

\* The case of C18: two adds overlapped, both were answered 201 and both
\* responses were handled, and todos holds only one of the two todos.
C18_LostAdd ==
  /\ synced
  /\ Quiet
  /\ error = NULL
  /\ Len(todosCollection) = 2
  /\ Len(todos) = 1

\* fetchTodos ending without a list from the backend enters demo mode with
\* the demo dataset, which has four items.
C14_Entry ==
  /\ (call = "unmounted" /\ call' # "unmounted" /\ NoBackend(baseUrl))
     => isDemoMode' /\ todos' = demoTodos
  /\ (call = "fetchTodos" /\ call' = "none" /\ ~Ok(response))
     => isDemoMode' /\ todos' = demoTodos
  /\ Len(demoTodos) = 4

SameButTask(new, old, id) ==
  /\ Len(new) = Len(old)
  /\ \A i \in 1 .. Len(old) :
       /\ new[i]._id = old[i]._id
       /\ new[i].status = old[i].status
       /\ old[i]._id # id => new[i].task = old[i].task

SameButStatus(new, old, id) ==
  /\ Len(new) = Len(old)
  /\ \A i \in 1 .. Len(old) :
       /\ new[i]._id = old[i]._id
       /\ new[i].task = old[i].task
       /\ old[i]._id # id => new[i].status = old[i].status

\* A mutation in demo mode is one of the four, done on the local list with
\* no error and no request: an add appends a "pending" todo with the typed
\* task under a new id, a delete removes the todo of the id and no other,
\* an edit changes only the task of its todo, a status press changes only
\* the status of its todo, to the other value.
C14_LocalMutation ==
  (isDemoMode /\ now' # now)
  => /\ error' = error
     /\ request' = NoRequest
     /\ \/ /\ Len(todos') = Len(todos) + 1
           /\ SubSeq(todos', 1, Len(todos)) = todos
           /\ todos'[Len(todos')].status = "pending"
           /\ todos'[Len(todos')].task \in TextInputs
           /\ Truthy(TrimTask(todos'[Len(todos')].task))
           /\ todos'[Len(todos')]._id \notin Ids(todos)
           /\ newTask' = Str(<<>>)
        \/ \E id \in Ids(todos) :
             /\ Len(todos') = Len(todos) - 1
             /\ id \notin Ids(todos')
             /\ todos' = SelectSeq(todos, LAMBDA t : t \in Range(todos'))
        \/ \E id \in Ids(todos) :
             /\ SameButTask(todos', todos, id)
             /\ Doc(todos', id).task \in EditInputs
             /\ editingId' = NoEditing
        \/ \E id \in Ids(todos) :
             /\ SameButStatus(todos', todos, id)
             /\ Doc(todos, id).status = "pending" => Doc(todos', id).status = "done"
             /\ Doc(todos, id).status = "done" => Doc(todos', id).status = "pending"

\* C14: in the demo variant, when the initial fetch fails or the API URL is
\* unset or contains 'localhost', the client enters demo mode with todos
\* equal to the four-item demo dataset, and afterwards add, delete,
\* save-edit and status-update act on the local list (add appends a
\* "pending" todo, delete removes the id, edit changes only task,
\* status-update changes only status).
C14_DemoMode == [][C14_Entry /\ C14_LocalMutation]_vars

\* C14 witness: the fetch to a remote backend failed, and in demo mode a
\* todo was added, the first demo todo was deleted and the second was
\* edited.
C14_Witness ==
  /\ isDemoMode
  /\ error = "Demo Mode: Cannot connect to backend API. Failed to fetch"
  /\ Len(todos) = 4
  /\ todos[4]._id = DemoId(FirstNow)
  /\ todos[4].status = "pending"
  /\ DemoId(1) \notin Ids(todos)
  /\ todos[1].task = Str(<<" ", "a", " ">>)

\* C14, the other way in: the URL names localhost, and a status press on the
\* first demo todo has set it to "done".
C14_WitnessLocalhost ==
  /\ isDemoMode
  /\ Includes(baseUrl, "localhost")
  /\ Len(todos) = 4
  /\ todos[1].status = "done"
  /\ todos[1].task = demoTodos[1].task

\* In demo mode no request is on the wire and no function awaits one.
C19_DemoSendsNothing == isDemoMode => request = NoRequest /\ call = "none"

\* Demo mode stays on, and in it no request is issued and the server's
\* collection is left alone; a failed mutation leaves demo mode off and the
\* list as it was.
C19_DemoStep ==
  /\ isDemoMode => /\ isDemoMode'
                   /\ request' = NoRequest
                   /\ todosCollection' = todosCollection
  /\ (call \in Mutations /\ call' = "none" /\ ~Ok(response))
     => /\ ~isDemoMode
        /\ ~isDemoMode'
        /\ todos' = todos

\* C19: in the demo variant no HTTP mutation request is sent while
\* isDemoMode is true, isDemoMode once true stays true for the rest of the
\* session, and a failed mutation in non-demo mode never switches to demo
\* mode or replaces the list with the demo dataset.
C19_DemoModeIsSticky == [](C19_DemoSendsNothing) /\ [][C19_DemoStep]_vars

\* C19 witness: outside demo mode a delete failed and the list still holds
\* its todo.
C19_Witness ==
  /\ ~isDemoMode
  /\ synced
  /\ call = "none"
  /\ error = "Failed to delete task"
  /\ Len(todos) = 1

\* C19, in demo mode: three local mutations were made, the server's
\* collection is empty and no request is out.
C19_WitnessDemo ==
  /\ isDemoMode
  /\ now = FirstNow + 3
  /\ request = NoRequest
  /\ todosCollection = <<>>

\* C21: addTodo with an empty or whitespace-only input sends no request, and
\* saveEdit applies the same rule: the client never sends a create or update
\* request whose task is empty or whitespace-only.
C21_NoBlankTaskSent ==
  (call \in {"addTodo", "saveEdit"} /\ request # NoRequest)
  => Truthy(TrimTask(request.task))

\* What does hold: addTodo never sends a blank task.
C21_AddSendsNoBlank ==
  (call = "addTodo" /\ request # NoRequest) => Truthy(TrimTask(request.task))

\* The case of C21: saveEdit has sent a PUT whose task is the empty string,
\* and the server has stored it.
C21_BlankEditStored ==
  /\ call = "saveEdit"
  /\ request.task = Str(<<>>)
  /\ Ok(response)
  /\ response.todo.task = Str(<<>>)

(***************************************************************************)
(* Pure functions of the library files: TodoApiClient.toggleTodoStatus and *)
(* getTodoStatistics (on the list getAllTodos returned), todoUtils'        *)
(* generateTodoStatistics and updateTodoObject.  input holds the name of   *)
(* the function and its arguments, output its result.                     *)
(***************************************************************************)
\* currentStatus arguments: the two statuses, one outside them, undefined.
ToggleStatuses == {"pending", "done", "archived", UNDEFINED}

\* The request updateTodo(todoId, updates) hands to executeRequest: PUT
\* /todos/<todoId> with JSON.stringify(updates) as body.
UpdateRequest(todoId, updates) ==
  [NoRequest EXCEPT !.method = "PUT", !.id = todoId,
                    !.task = updates.task, !.status = updates.status]

\* Mutant of toggleTodoStatus: every toggle asks for "done".
toggleTodoStatusDone(todoId, currentStatus) ==
  UpdateRequest(todoId, [task |-> Undefined, status |-> "done"])

\* toggleTodoStatus: updateTodo(todoId, { status: newStatus })
toggleTodoStatus(todoId, currentStatus) ==
  LET newStatus == IF currentStatus = "done" THEN "pending" ELSE "done" IN
  UpdateRequest(todoId, [task |-> Undefined, status |-> newStatus])

\* Math.round((completed / total) * 100), for 0 <= completed and 0 < total.
RoundPercent(completed, total) == (200 * completed + total) \div (2 * total)

IsDone(todo) == todo.status = "done"
IsPending(todo) == todo.status = "pending"

Statistics(list, total) ==
  LET completed == Len(SelectSeq(list, IsDone)) IN
  [total |-> total,
   completed |-> completed,
   pending |-> Len(SelectSeq(list, IsPending)),
   completionRate |-> IF total > 0 THEN RoundPercent(completed, total) ELSE 0]

\* todoUtils.js generateTodoStatistics, on an array.
generateTodoStatistics(list) ==
  LET validTodos == SelectSeq(list, validateTodoStructure) IN
  Statistics(validTodos, Len(validTodos))

\* todoApiClient.js getTodoStatistics, allTodos being what getAllTodos
\* returned.
getTodoStatistics(allTodos) == Statistics(allTodos, Len(allTodos))

\* The todo objects and the updates handed to updateTodoObject.
UtilTodos ==
  [_id : {1}, task : FilterTasks, status : FilterStatuses, updatedAt : {"created"}]
UpdateTasks == TaskInputs \cup {Null}
UpdateStatuses == StatusInputs \cup {NULL}

NoUtilTodo == [_id |-> 0, task |-> Undefined, status |-> UNDEFINED, updatedAt |-> UNDEFINED]

\* The outcome of a call of updateTodoObject: whether it threw and with which
\* message, the object it returned (ret) and whether that is an object made
\* by the call (fresh), and the object passed as todo as it is after the call
\* (arg).
UtilThrow(msg, arg) ==
  [threw |-> TRUE, error |-> msg, ret |-> NoUtilTodo, fresh |-> FALSE, arg |-> arg]
UtilReturn(ret, fresh, arg) ==
  [threw |-> FALSE, error |-> "", ret |-> ret, fresh |-> fresh, arg |-> arg]

\* The body of updateTodoObject; spread tells whether updatedTodo is the
\* copy { ...todo } or the object todo itself.
UpdateSteps(todo, updates, spread) ==
  LET afterTask == IF updates.task # Undefined
                     THEN [todo EXCEPT !.task = TrimTask(updates.task)]
                     ELSE todo
      afterStatus == IF updates.status # UNDEFINED
                       THEN [afterTask EXCEPT !.status = updates.status]
                       ELSE afterTask
      updatedTodo == [afterStatus EXCEPT !.updatedAt = "now"]
      Arg(written) == IF spread THEN todo ELSE written
  IN
  IF ~validateTodoStructure(todo)
    THEN UtilThrow("Invalid todo object", todo)
  ELSE IF /\ updates.task # Undefined
          /\ (updates.task.type # "string" \/ Trim(updates.task.chars) = <<>>)
    THEN UtilThrow("Task must be a non-empty string", todo)
  ELSE IF updates.status # UNDEFINED /\ updates.status \notin {"pending", "done"}
    THEN UtilThrow("Status must be one of: pending, done", Arg(afterTask))
  ELSE UtilReturn(updatedTodo, spread, Arg(updatedTodo))

\* Mutant of updateTodoObject: the updates are written into todo itself.
updateTodoObjectInPlace(todo, updates) == UpdateSteps(todo, updates, FALSE)

\* todoUtils.js updateTodoObject: const updatedTodo = { ...todo }
updateTodoObject(todo, updates) == UpdateSteps(todo, updates, TRUE)

\* The lists handed to the statistics functions.
StatStatuses == FilterStatuses \cup {"archived"}
StatLists ==
  UNION {[1 .. n -> [task : FilterTasks, status : StatStatuses]] : n \in 0 .. MaxList}

UtilInputs ==
  {[fn |-> "toggleTodoStatus", id |-> id, status |-> st] :
     id \in 1 .. MaxTodos, st \in ToggleStatuses}
  \cup {[fn |-> "statistics", todos |-> WithIds(list)] : list \in StatLists}
  \cup {[fn |-> "updateTodoObject", todo |-> todo, updates |-> updates] :
          todo \in UtilTodos, updates \in [task : UpdateTasks, status : UpdateStatuses]}

NoUtilOutput == [done |-> FALSE, value |-> <<>>]

\* toggleTodoStatus, called with the current status of the todo; a second
\* call is made with the status the first one asked for.
ApplyToggle ==
  /\ input.fn = "toggleTodoStatus"
  /\ Len(output.value) < 2
  /\ LET currentStatus == IF output.value = <<>>
                            THEN input.status
                            ELSE output.value[Len(output.value)].status
     IN output' = [done |-> TRUE,
                   value |-> Append(output.value, toggleTodoStatus(input.id, currentStatus))]
  /\ UNCHANGED <<serverVars, wireVars, appVars, demoVars, input, api, service>>

ApplyStatistics ==
  /\ input.fn = "statistics"
  /\ ~output.done
  /\ output' = [done |-> TRUE,
                value |-> [util |-> generateTodoStatistics(input.todos),
                           api |-> getTodoStatistics(input.todos)]]
  /\ UNCHANGED <<serverVars, wireVars, appVars, demoVars, input, api, service>>

ApplyUpdate ==
  /\ input.fn = "updateTodoObject"
  /\ ~output.done
  /\ output' = [done |-> TRUE, value |-> updateTodoObject(input.todo, input.updates)]
  /\ UNCHANGED <<serverVars, wireVars, appVars, demoVars, input, api, service>>

InitUtils ==
  /\ variant = "server.js"
  /\ InitBackend
  /\ InitClient
  /\ input \in UtilInputs
  /\ output = NoUtilOutput
  /\ InitLib

NextUtils == ApplyToggle \/ ApplyStatistics \/ ApplyUpdate

SpecUtils == InitUtils /\ [][NextUtils]_vars

\* C26: toggleTodoStatus requests "pending" when the current status is "done"
\* and "done" otherwise, the request carries only the status field, and for a
\* current status of "pending" or "done" the second toggle requests the
\* original status again.
C26_Toggle ==
  (input.fn = "toggleTodoStatus" /\ output.done) =>
    LET first == output.value[1] IN
    /\ first.method = "PUT" /\ first.id = input.id
    /\ first.status = (IF input.status = "done" THEN "pending" ELSE "done")
    /\ \A i \in 1 .. Len(output.value) : output.value[i].task = Undefined
    /\ (Len(output.value) = 2 /\ input.status \in {"pending", "done"})
         => output.value[2].status = input.status
C26_Witness ==
  /\ input.fn = "toggleTodoStatus" /\ input.status = "pending"
  /\ Len(output.value) = 2 /\ output.value[1].status = "done"

Consistent(stats) ==
  /\ stats.total = stats.pending + stats.completed
  /\ 0 <= stats.completionRate /\ stats.completionRate <= 100
  /\ stats.total = 0 => stats.completionRate = 0

\* C27: for every input array the statistics of generateTodoStatistics and of
\* getTodoStatistics satisfy total = pending + completed and
\* 0 <= completionRate <= 100, with completionRate = 0 when total = 0.
C27_StatisticsConsistent ==
  (input.fn = "statistics" /\ output.done) =>
    Consistent(output.value.util) /\ Consistent(output.value.api)
\* What holds: generateTodoStatistics is consistent on every array.
C27_UtilConsistent ==
  (input.fn = "statistics" /\ output.done) => Consistent(output.value.util)
C27_ApiTotalOff ==
  /\ input.fn = "statistics" /\ output.done
  /\ output.value.api.total = 1
  /\ output.value.api.pending + output.value.api.completed = 0

\* C28: updateTodoObject returns a new object and leaves its todo argument as
\* it was; _id, and task or status when updates does not give them, keep
\* their value; a blank or non-string task, a status other than "pending" and
\* "done" or an invalid todo raises an error (the argument unchanged, so
\* nothing is half updated); a returned object is a valid todo structure.
C28_UpdateTodoObject ==
  (input.fn = "updateTodoObject" /\ output.done) =>
    LET r == output.value
        todo == input.todo
        updates == input.updates
        badTask == /\ updates.task # Undefined
                   /\ (updates.task.type # "string" \/ Trim(updates.task.chars) = <<>>)
        badStatus == updates.status # UNDEFINED /\ updates.status \notin {"pending", "done"}
    IN
    /\ r.arg = todo
    /\ (badTask \/ badStatus \/ ~validateTodoStructure(todo)) => r.threw
    /\ ~r.threw =>
         /\ r.fresh
         /\ r.ret._id = todo._id
         /\ updates.task = Undefined => r.ret.task = todo.task
         /\ updates.status = UNDEFINED => r.ret.status = todo.status
         /\ validateTodoStructure(r.ret)
C28_Witness ==
  /\ input.fn = "updateTodoObject" /\ output.done
  /\ ~output.value.threw
  /\ input.updates.task = Undefined
  /\ input.updates.status = "done" /\ input.todo.status = "pending"
  /\ output.value.ret.status = "done" /\ output.value.arg.status = "pending"
\* A task that is accepted and a status that is refused: the call throws
\* after updatedTodo.task was assigned.
C28_WitnessThrow ==
  /\ input.fn = "updateTodoObject" /\ output.done
  /\ output.value.threw
  /\ input.updates.task = Str(<<" ", "a", " ">>) /\ input.updates.status = "archived"
  /\ validateTodoStructure(input.todo)

(***************************************************************************)
(* TodoService.createTodo.  service is the sequence of the calls made, each *)
(* with its argument, the events it emitted, the number of calls of        *)
(* apiClient.createTodo it made and the way its promise settled.           *)
(***************************************************************************)
MaxCalls == 2

\* The methods class TodoService defines (todoService.js lines 20-504).
ServiceMethods ==
  {"setupJavaScriptEventHandlers", "getAllTodos", "createTodo", "updateTodo",
   "deleteTodo", "getTodoById", "validateTodoData", "generateTemporaryId",
   "isCacheValid", "getCachedData", "handleServiceError", "categorizeError",
   "emitEvent", "addEventListener", "removeEventListener", "clearCache",
   "getServiceStatistics"}

\* this.<method>(...) throws a TypeError when the object has no such method.
NotAFunction(method) == "TypeError: this." \o method \o " is not a function"

\* todoData arguments: objects with a task and a status (either may be absent).
ServiceData == [task : UpdateTasks, status : UpdateStatuses]

\* validateTodoData(todoData).isValid, for an object without createdAt and
\* updatedAt.
TaskLimit == 200
validateTodoData(todoData) ==
  /\ Truthy(todoData.task)
  /\ Trim(todoData.task.chars) # <<>>
  /\ Len(todoData.task.chars) <= TaskLimit
  /\ todoData.status \in {UNDEFINED, NULL, "pending", "done"}

\* What apiClient.createTodo(todoData) does when it is called: it resolves to
\* the todo the server created or rejects with the error of executeRequest.
ApiBehaviours == {"resolves", "rejects"}
ApiError == "JavaScript API Request Failed"
ApiTodo(todoData) ==
  [_id |-> 1, task |-> TrimTask(todoData.task),
   status |-> IF todoData.status \in {UNDEFINED, NULL} THEN "pending" ELSE todoData.status]

Event(name, isOptimistic) == [name |-> name, isOptimistic |-> isOptimistic]

ServiceResolved(events, apiCalls, todo) ==
  [events |-> events, apiCalls |-> apiCalls,
   settled |-> "resolved", todo |-> todo, error |-> ""]
ServiceRejected(events, apiCalls, err) ==
  [events |-> events, apiCalls |-> apiCalls,
   settled |-> "rejected", todo |-> NoTodo, error |-> err]

\* The try block of createTodo (lines 112-140): a rejected result is the
\* error thrown inside it.
TryCreateTodo(todoData, behaviour) ==
  LET optimistic == <<Event("todoCreated", TRUE)>> IN
  IF ~validateTodoData(todoData)
    THEN ServiceRejected(<<>>, 0, "JavaScript validation failed")
  ELSE IF "updateCacheWithOptimisticUpdate" \notin ServiceMethods
    THEN ServiceRejected(<<>>, 0, NotAFunction("updateCacheWithOptimisticUpdate"))
  ELSE IF behaviour = "rejects"
    THEN ServiceRejected(optimistic, 1, ApiError)
  ELSE IF "updateCacheWithRealData" \notin ServiceMethods
    THEN ServiceRejected(optimistic, 1, NotAFunction("updateCacheWithRealData"))
  ELSE ServiceResolved(Append(optimistic, Event("todoCreated", FALSE)), 1, ApiTodo(todoData))

\* createTodo: the try block, and the catch block (lines 141-150) when the
\* try block threw.
createTodo(todoData, behaviour) ==
  LET try == TryCreateTodo(todoData, behaviour) IN
  IF try.settled = "resolved"
    THEN try
  ELSE IF "rollbackOptimisticUpdate" \notin ServiceMethods
    THEN ServiceRejected(try.events, try.apiCalls, NotAFunction("rollbackOptimisticUpdate"))
  ELSE ServiceRejected(try.events \o <<Event("todoCreationFailed", FALSE),
                                  Event("serviceError", FALSE)>>,
                  try.apiCalls, try.error)

\* One call of service.createTodo(todoData), run to the settling of its
\* promise.
ServiceCreateTodo ==
  /\ Len(service) < MaxCalls
  /\ \E todoData \in ServiceData, behaviour \in ApiBehaviours :
       service' = Append(service, [data |-> todoData, api |-> behaviour,
                                   out |-> createTodo(todoData, behaviour)])
  /\ UNCHANGED <<serverVars, wireVars, appVars, demoVars, input, output, api>>

InitService ==
  /\ variant = "server.js"
  /\ InitBackend
  /\ InitClient
  /\ InitPure

NextService == ServiceCreateTodo

SpecService == InitService /\ [][NextService]_vars

\* C29: createTodo with valid data resolves to the todo of the API client,
\* having emitted 'todoCreated' with isOptimistic true and then with
\* isOptimistic false; when the API call fails it emits 'todoCreationFailed'
\* and rejects with the API error; with invalid data it makes no API call.
C29_CreateTodo ==
  \A i \in 1 .. Len(service) :
    LET c == service[i] IN
    /\ (validateTodoData(c.data) /\ c.api = "resolves") =>
         /\ c.out.settled = "resolved" /\ c.out.todo = ApiTodo(c.data)
         /\ c.out.events = <<Event("todoCreated", TRUE), Event("todoCreated", FALSE)>>
    /\ (validateTodoData(c.data) /\ c.api = "rejects") =>
         /\ c.out.settled = "rejected" /\ c.out.error = ApiError
         /\ \E k \in 1 .. Len(c.out.events) : c.out.events[k].name = "todoCreationFailed"
    /\ ~validateTodoData(c.data) => c.out.apiCalls = 0
\* What holds: a call with invalid data makes no API call.
C29_InvalidMakesNoCall ==
  \A i \in 1 .. Len(service) :
    ~validateTodoData(service[i].data) => service[i].out.apiCalls = 0
C29_TypeErrorOnValid ==
  /\ Len(service) = 1
  /\ service[1].data = [task |-> Str(<<" ", "a", " ">>), status |-> "pending"]
  /\ service[1].api = "resolves"
  /\ service[1].out.settled = "rejected"
  /\ service[1].out.error = NotAFunction("rollbackOptimisticUpdate")
  /\ service[1].out.events = <<>> /\ service[1].out.apiCalls = 0

(***************************************************************************)
(* TodoApiClient: one client with its options and its cache, a call of     *)
(* getAllTodos (api.get) and a call of createTodo, updateTodo or           *)
(* deleteTodo (api.mut) that may overlap, against the listening server.    *)
(* Every fetch attempt of executeRequest is a step (the server handles the *)
(* request, or the request is lost), and so is the code that runs when the *)
(* attempt settles.                                                        *)
(***************************************************************************)
MaxRetries == 2
MaxApiCalls == 2

\* The abort of the AbortController fired, or the connection dropped, after
\* the server handled the request.
Aborted == [NoResponse EXCEPT !.kind = "rejected", !.error = "The operation was aborted"]

NoCache == [present |-> FALSE, list |-> <<>>]
CacheOf(list) == [present |-> TRUE, list |-> list]

\* A call: its number among the calls of the client, where it is (idle,
\* fetching, settling, returned, threw), its request, whether it called
\* executeRequest, the fetch attempts and the retry delays of executeRequest
\* so far, the response of the last attempt, what it returned or threw, and
\* the length of the server's collection when it started.
NoCall ==
  [no |-> 0, pc |-> "idle", kind |-> "none", req |-> NoRequest, ran |-> FALSE,
   attempt |-> 0, waits |-> 0, res |-> NoResponse, value |-> NoResponse,
   error |-> "", start |-> 0]

Returns(c, res) == [c EXCEPT !.pc = "returned", !.value = res]
Throws(c, msg) == [c EXCEPT !.pc = "threw", !.error = msg]

\* lastError.message of a failed attempt.
AttemptError(res) ==
  IF res.kind = "rejected"
    THEN res.error
    ELSE "JavaScript HTTP Error: " \o ToString(res.code)
FailedAfter(retries, msg) ==
  "JavaScript API Request Failed after " \o ToString(retries) \o " attempts: " \o msg
\* lastError.message when lastError was never assigned.
LastErrorUndefined == "TypeError: Cannot read properties of undefined (reading 'message')"

\* executeRequest up to its first fetch: the loop is entered when
\* 1 <= options.retries, otherwise the throw after the loop is reached.
EnterLoop(c, retries) ==
  IF 1 <= retries
    THEN [c EXCEPT !.ran = TRUE, !.pc = "fetching", !.attempt = 1]
    ELSE Throws([c EXCEPT !.ran = TRUE], LastErrorUndefined)

\* The catch block of an attempt and what follows it: the delay and the next
\* attempt, or the throw after the loop.
AttemptFailed(c, retries) ==
  IF c.attempt < retries
    THEN [c EXCEPT !.pc = "fetching", !.attempt = c.attempt + 1,
                   !.waits = c.waits + 1, !.res = NoResponse]
    ELSE Throws(c, FailedAfter(retries, AttemptError(c.res)))

\* The arguments of the mutations.
ApiCreateData == [task : {Str(<<" ", "a", " ">>), Str(<<" ">>)}, status : {UNDEFINED, "done"}]
ApiUpdates == {[task |-> Undefined, status |-> "done"]}

\* createTodo: its validation and its payload.
CreateInvalid(todoData) == ~Truthy(todoData.task) \/ Trim(todoData.task.chars) = <<>>
CreatePayload(todoData) ==
  [NoRequest EXCEPT !.method = "POST", !.task = TrimTask(todoData.task),
                    !.status = IF todoData.status \in {UNDEFINED, NULL}
                                 THEN "pending" ELSE todoData.status]

ApiStart(kind, req) ==
  [NoCall EXCEPT !.no = api.started + 1, !.kind = kind, !.req = req,
                 !.start = Len(todosCollection)]

Over(c) == c.pc \in {"idle", "returned", "threw"}

\* getAllTodos is called: the cached list is returned, or executeRequest
\* starts.
ApiGetAllTodos ==
  /\ Over(api.get)
  /\ api.started < MaxApiCalls
  /\ LET c == ApiStart("getAllTodos", [NoRequest EXCEPT !.method = "GET"]) IN
     api' = [api EXCEPT !.started = api.started + 1,
                        !.get = IF api.cache.present
                                  THEN Returns(c, JsonList(api.cache.list))
                                  ELSE EnterLoop(c, api.retries)]
  /\ UNCHANGED <<serverVars, wireVars, appVars, demoVars, input, output, service>>

\* createTodo, updateTodo or deleteTodo is called: the arguments are
\* validated and executeRequest starts.
ApiMutation ==
  /\ Over(api.mut)
  /\ api.started < MaxApiCalls
  /\ \E c \in
       {IF CreateInvalid(todoData)
          THEN Throws(ApiStart("createTodo", NoRequest),
                      "JavaScript Error: Todo task must be a non-empty string")
          ELSE EnterLoop(ApiStart("createTodo", CreatePayload(todoData)), api.retries) :
        todoData \in ApiCreateData}
       \cup {EnterLoop(ApiStart("updateTodo", UpdateRequest(id, updates)), api.retries) :
               id \in RequestIds, updates \in ApiUpdates}
       \cup {EnterLoop(ApiStart("deleteTodo", [NoRequest EXCEPT !.method = "DELETE", !.id = id]),
                       api.retries) : id \in RequestIds} :
       api' = [api EXCEPT !.started = api.started + 1, !.mut = c]
  /\ UNCHANGED <<serverVars, wireVars, appVars, demoVars, input, output, service>>

\* A fetch attempt of call c: the request does not reach the server, or the
\* server handles it and the response is delivered or lost.  Each outcome is
\* the call after the attempt and what the server did.
Attempts(c) ==
  LET After(res) == [c EXCEPT !.pc = "settling", !.res = res] IN
  {[call |-> After(NetworkError), out |-> Outcome(todosCollection, NetworkError)]}
  \cup (IF c.req.method = "POST" /\ nextId > MaxTodos
          THEN {}
          ELSE UNION {{[call |-> After(res), out |-> out] : res \in {out.res, Aborted}} :
                      out \in Route(c.req, todosCollection, nextId, FALSE)})

ApiAttempt(slot) ==
  /\ api[slot].pc = "fetching"
  /\ \E a \in Attempts(api[slot]) :
       /\ api' = [api EXCEPT ![slot] = a.call]
       /\ todosCollection' = a.out.coll
       /\ nextId' = IF Len(a.out.coll) > Len(todosCollection) THEN nextId + 1 ELSE nextId
       /\ ledger' = Ledger(ledger, api[slot].req, a.out.res)
  /\ UNCHANGED <<variant, reliable, proc, wireVars, appVars, demoVars, input, output, service>>

\* getAllTodos after executeRequest returned: this.cache.set(cacheKey, todos)
AfterGet(a, res) == [a EXCEPT !.cache = CacheOf(res.list), !.get = Returns(a.get, res)]

\* Mutant of AfterMutation: the cache entry is kept.
AfterMutationKeepsCache(a, res) == [a EXCEPT !.mut = Returns(a.mut, res)]

\* A mutation after executeRequest returned: this.cache.delete('all_todos')
AfterMutation(a, res) == [a EXCEPT !.cache = NoCache, !.mut = Returns(a.mut, res)]

\* The attempt of getAllTodos settles.
ApiSettleGet ==
  /\ api.get.pc = "settling"
  /\ api' = IF Ok(api.get.res)
              THEN AfterGet(api, api.get.res)
              ELSE [api EXCEPT !.get = AttemptFailed(api.get, api.retries)]
  /\ UNCHANGED <<serverVars, wireVars, appVars, demoVars, input, output, service>>

\* The attempt of the mutation settles.
ApiSettleMutation ==
  /\ api.mut.pc = "settling"
  /\ api' = IF Ok(api.mut.res)
              THEN AfterMutation(api, api.mut.res)
              ELSE [api EXCEPT !.mut = AttemptFailed(api.mut, api.retries)]
  /\ UNCHANGED <<serverVars, wireVars, appVars, demoVars, input, output, service>>

\* new TodoApiClient(baseUrl, options) with options.retries of the caller's
\* choice (3 when not given), against the listening server.
InitApi ==
  /\ variant = "server.js"
  /\ reliable = TRUE
  /\ proc = connectDB(TRUE)
  /\ ledger = <<>>
  /\ todosCollection = <<>>
  /\ nextId = 1
  /\ request = NoRequest
  /\ response = NoResponse
  /\ before = <<>>
  /\ fault = FALSE
  /\ InitClient
  /\ input = <<>>
  /\ output = <<>>
  /\ service = <<>>
  /\ \E retries \in 0 .. MaxRetries :
       api = [retries |-> retries, cache |-> NoCache, started |-> 0,
              get |-> NoCall, mut |-> NoCall]

NextApi ==
  \/ ApiGetAllTodos
  \/ ApiMutation
  \/ \E slot \in {"get", "mut"} : ApiAttempt(slot)
  \/ ApiSettleGet
  \/ ApiSettleMutation

SpecApi == InitApi /\ [][NextApi]_vars

\* What C22 says of a call whose executeRequest is over.
AttemptsAsClaimed(c, retries) ==
  /\ 1 <= c.attempt /\ c.attempt <= retries
  /\ c.waits = c.attempt - 1
  /\ c.pc = "returned" => Ok(c.res) /\ c.value = c.res
  /\ c.pc = "threw" =>
       /\ c.attempt = retries
       /\ c.error = FailedAfter(c.attempt, AttemptError(c.res))

\* C22: executeRequest makes at least one and at most options.retries fetch
\* attempts, returns the data of the first successful attempt with no further
\* attempt, waits between attempts and not after the last one, and throws an
\* error that names the number of attempts when every attempt failed.
C22_ExecuteRequest ==
  \A slot \in {"get", "mut"} :
    (api[slot].ran /\ Over(api[slot])) => AttemptsAsClaimed(api[slot], api.retries)
\* What holds: the same for a client whose options.retries is at least 1.
C22_WithOneRetryOrMore == api.retries >= 1 => C22_ExecuteRequest
C22_NoAttempt ==
  /\ api.retries = 0
  /\ api.get.ran /\ api.get.pc = "threw"
  /\ api.get.attempt = 0 /\ api.get.error = LastErrorUndefined

\* C23: one call of createTodo creates at most one record on the server,
\* whatever its outcome.
C23_AtMostOneRecord ==
  api.mut.kind = "createTodo" => Len(todosCollection) <= api.mut.start + 1
\* What holds: a call that makes no retry creates at most one record.
C23_OnePerCallWithoutRetry ==
  (api.mut.kind = "createTodo" /\ api.mut.waits = 0)
    => Len(todosCollection) <= api.mut.start + 1
C23_Duplicate ==
  /\ api.mut.kind = "createTodo" /\ api.mut.pc = "returned"
  /\ api.mut.start = 0 /\ Len(todosCollection) = 2
  /\ todosCollection[1].task = todosCollection[2].task
  /\ api.mut.attempt = 2

\* The steps in which a call starts and in which a mutation ends.
GetStarts == api'.get.no # api.get.no
MutationEnds(pc) ==
  /\ api'.mut.pc = pc
  /\ api.mut.pc \in {"fetching", "settling"} \/ api'.mut.no # api.mut.no

\* C24: when a mutation completes successfully the 'all_todos' entry is
\* absent, and a getAllTodos that finds no entry goes to the server; when a
\* mutation fails the entry is left as it was; getAllTodos with an entry
\* present returns it and makes no request.
C24_CacheInvalidation ==
  [][/\ MutationEnds("returned") => ~api'.cache.present
     /\ MutationEnds("threw") => api'.cache = api.cache
     /\ (GetStarts /\ ~api.cache.present) => api'.get.ran
     /\ (GetStarts /\ api.cache.present) =>
          /\ api'.get.pc = "returned"
          /\ api'.get.value = JsonList(api.cache.list)
          /\ ~api'.get.ran /\ api'.get.attempt = 0
          /\ api'.cache = api.cache
          /\ UNCHANGED serverVars]_vars
\* getAllTodos cached the list, a mutation that started later returned, and
\* the entry is gone.
C24_Witness ==
  /\ api.get.pc = "returned" /\ api.get.attempt >= 1
  /\ api.mut.pc = "returned" /\ api.get.no < api.mut.no
  /\ ~api.cache.present
\* getAllTodos served from the cache.
C24_WitnessHit ==
  /\ api.get.pc = "returned" /\ ~api.get.ran /\ api.cache.present
  /\ api.get.value = JsonList(api.cache.list)

\* C25: once a getAllTodos call and a mutation of the same client have both
\* completed, the cached list, if present, includes the effect of the
\* mutation: it is the server's list.
C25_CacheFresh ==
  (api.get.pc = "returned" /\ api.mut.pc = "returned" /\ api.cache.present)
    => api.cache.list = todosCollection
C25_StaleSnapshot ==
  /\ api.get.pc = "returned" /\ api.mut.pc = "returned"
  /\ api.mut.kind = "createTodo" /\ api.get.no < api.mut.no
  /\ api.cache = CacheOf(<<>>) /\ Len(todosCollection) = 1

====
